---- MODULE Spec2Model ----
(***************************************************************************)
(* The connection lifecycle and broadcast core of go-htmx-chatter:         *)
(* Hub.Run (the control loop over register / unregister / broadcast),      *)
(* serveWs, Client.readPump and Client.writePump.                          *)
(*                                                                         *)
(* Every channel of the program is unbuffered (make(chan T)), so a send    *)
(* completes only in a rendezvous with a receiver.  A blocked sender is    *)
(* modelled by the sender's position (spc = "register", rpc = "broadcast", *)
(* rpc = "unregister"); the Hub's receive is the action that moves it on.  *)
(* The Hub's send on client.send is inside select/default: it succeeds     *)
(* only when the mailbox can take the value at that instant.               *)
(***************************************************************************)
EXTENDS Integers, Sequences, FiniteSets, TLC

(* ---------------------------- bounds ----------------------------------- *)

\* number of connections accepted by serveWs over the run
NumClients == 2
\* total number of frames successfully read from all connections
MaxFrames == 2
\* number of members of one JSON object that name the field Text
MaxMembers == 2
\* seconds of one connection's life the keepalive clock covers
MaxTime == 120
\* values waiting in a mailbox when writePump writes
MaxQueued == 2

(* ------------------------ program constants ---------------------------- *)

\* capacity of Client.send: make(chan []byte) is unbuffered
MailboxCap == 0
\* time allowed to read the next pong (seconds)
pongWait == 60
\* maximum message size allowed from the peer
maxMessageSize == 512
\* time allowed to write a message to the peer (seconds)
writeWait == 10
\* send pings to peer with this period
pingPeriod == (pongWait * 9) \div 10

(* ----------------------------- data ------------------------------------ *)

Clients == 1..NumClients

\* a *Message; n is the allocation's identity (the n-th Message its sender
\* built), which distinguishes two messages of equal content
Message(id, text, n) == [ClientId |-> id, Text |-> text, n |-> n]

NoMessage == Message(0, "", 0)

\* the bytes getMessageTemplate produces for msg: the template file applied
\* to the message
getMessageTemplate(msg) == [template |-> "templates/message.html", data |-> msg]

NoBytes == getMessageTemplate(NoMessage)

(* A received frame, as far as json.Decoder.Decode(&msg) into a            *)
(* **WSMessage{Headers interface{}; Text string} can tell frames apart:    *)
(*   kind "invalid" : the bytes are not a JSON value                       *)
(*   kind "null"    : the JSON value null                                  *)
(*   kind "scalar"  : a JSON number, string, boolean or array              *)
(*   kind "object"  : a JSON object; text lists, in order, the values of   *)
(*                    its members whose key matches the field Text.        *)
(*                    HEADERS is an interface{} and takes any value, and   *)
(*                    unknown keys are skipped, so no other member matters.*)
JsonValues ==
    { [type |-> "string", s |-> "hi"],
      [type |-> "number", s |-> ""],
      [type |-> "null", s |-> ""] }

SeqsUpTo(S, k) == UNION { [1..m -> S] : m \in 0..k }

Frames ==
    { [kind |-> k, text |-> <<>>] : k \in {"invalid", "null", "scalar"} }
    \cup { [kind |-> "object", text |-> t] : t \in SeqsUpTo(JsonValues, MaxMembers) }

\* storing the members of an object into the struct, one after the other:
\* a string sets Text, null leaves it, any other value is a type error that
\* is saved and skipped (Unmarshal "completes the unmarshaling as best it can")
RECURSIVE StoreMembers(_, _)
StoreMembers(vals, acc) ==
    IF vals = <<>> THEN acc
    ELSE LET v == Head(vals)
             next == CASE v.type = "string" -> [acc EXCEPT !.Text = v.s]
                       [] v.type = "null" -> acc
                       [] OTHER -> [acc EXCEPT !.err = TRUE]
         IN StoreMembers(Tail(vals), next)

\* msg := &WSMessage{}; err = decoder.Decode(&msg): the pointer msg after the
\* call (isNil), the Text it points to, and whether err != nil
Decode(frame) ==
    CASE frame.kind = "invalid" -> [isNil |-> FALSE, Text |-> "", err |-> TRUE]
      [] frame.kind = "null" -> [isNil |-> TRUE, Text |-> "", err |-> FALSE]
      [] frame.kind = "scalar" -> [isNil |-> FALSE, Text |-> "", err |-> TRUE]
      [] OTHER -> StoreMembers(frame.text, [isNil |-> FALSE, Text |-> "", err |-> FALSE])

(* ----------------------------- state ----------------------------------- *)

VARIABLES
    clients,     \* Hub.clients: the registry
    messages,    \* Hub.messages: the history
    hpc,         \* Hub.Run: "select" (waiting on the three channels) or "range"
    hmsg,        \* Hub.Run: the message being fanned out
    todo,        \* Hub.Run: registry entries the range loop has not produced yet
    startReg,    \* the registry when the current fan-out began (history variable)
    offered,     \* clients the current fan-out has tried to send to (history variable)
    spc,         \* serveWs, per connection: "register" (the connection is
                 \* upgraded, the Client built, and serveWs blocks in
                 \* client.hub.register <- client) or "done"
    rpc,         \* readPump, per client
    rmsg,        \* readPump: the Message being sent on hub.broadcast
    rerr,        \* readPump: whether Decode failed for that Message
    wpc,         \* writePump, per client
    wmsg,        \* writePump: the bytes received from c.send
    send,        \* Client.send: buffered values
    closed,      \* Client.send: closed
    connClosed,  \* Client.conn: closed by the server side
    delivered,   \* per client, the Messages put on its mailbox (history variable)
    written,     \* per client, the byte chunks written to its connection
    nread,       \* frames read so far, over all connections
    crashed,     \* the process died of an unrecovered panic
    ka           \* the keepalive clock of one connection, in seconds: now,
                 \* the read deadline of c.conn, the next tick of
                 \* writePump's ticker, and whether a ping awaits its pong

vars ==
    << clients, messages, hpc, hmsg, todo, startReg, offered, spc, rpc, rmsg,
       rerr, wpc, wmsg, send, closed, connClosed, delivered, written, nread,
       crashed, ka >>

hubVars == << clients, messages, hpc, hmsg, todo, startReg, offered >>

\* everything but the keepalive clock
progVars ==
    << hubVars, spc, rpc, rmsg, rerr, wpc, wmsg, send, closed, connClosed,
       delivered, written, nread, crashed >>

\* the clock before readPump and writePump have set anything
KaIdle == [now |-> 0, deadline |-> 0, nextTick |-> 0, pongDue |-> FALSE]

Init ==
    /\ clients = {}
    /\ messages = <<>>
    /\ hpc = "select"
    /\ hmsg = NoMessage
    /\ todo = {}
    /\ startReg = {}
    /\ offered = {}
    /\ spc = [c \in Clients |-> "register"]
    /\ rpc = [c \in Clients |-> "none"]
    /\ rmsg = [c \in Clients |-> NoMessage]
    /\ rerr = [c \in Clients |-> FALSE]
    /\ wpc = [c \in Clients |-> "none"]
    /\ wmsg = [c \in Clients |-> NoBytes]
    /\ send = [c \in Clients |-> <<>>]
    /\ closed = [c \in Clients |-> FALSE]
    /\ connClosed = [c \in Clients |-> FALSE]
    /\ delivered = [c \in Clients |-> <<>>]
    /\ written = [c \in Clients |-> <<>>]
    /\ nread = 0
    /\ crashed = FALSE
    /\ ka = KaIdle

(* ------------------------ channel operations --------------------------- *)

\* a receiver is parked on c.send: writePump waits in its select and the
\* buffer holds nothing it could take instead
ReceiverWaiting(c) == wpc[c] = "select" /\ send[c] = <<>>

\* faulty send: the case is always taken
CanSendAlways(c) == TRUE

\* the case `client.send <- v` of the Hub's select can proceed
CanSend(c) == ReceiverWaiting(c) \/ Len(send[c]) < MailboxCap

\* faulty close(client.send): the channel is left open
CloseSendNot(cl, c) == cl

\* faulty close(client.send): every client's channel is closed
CloseSendAll(cl, c) == [d \in DOMAIN cl |-> TRUE]

\* close(client.send)
CloseSend(cl, c) == [cl EXCEPT ![c] = TRUE]

\* faulty delete(h.clients, client): the entry stays
DeleteClientNot(reg, c) == reg

\* delete(h.clients, client)
DeleteClient(reg, c) == reg \ {c}

\* faulty membership test: every client passes for registered
IsRegisteredAlways(reg, c) == TRUE

\* _, ok := h.clients[client]
IsRegistered(reg, c) == c \in reg

\* h.clients[client] = true
InsertClient(reg, c) == reg \cup {c}

\* faulty append: the new message becomes the first entry
AppendHistoryFront(h, msg) == <<msg>> \o h

\* h.messages = append(h.messages, msg)
AppendHistory(h, msg) == Append(h, msg)

\* faulty fan-out: the sender of the message is left out
RangeOverOthers(reg, msg) == reg \ {msg.ClientId}

\* the entries `for client := range h.clients` produces for msg: the whole
\* registry, whoever sent msg
RangeOver(reg, msg) == reg

\* faulty range loop: a break after the first client
RangeBreak(rest, c) == {}

\* the entries `for client := range h.clients` still has to produce after it
\* produced c (the body deletes no entry but c itself, and nothing is added)
RangeRest(rest, c) == rest \ {c}

\* faulty c.conn.Close(): the connection stays open
CloseConnNot(cc, c) == cc

\* c.conn.Close(): closing a connection that is closed already changes
\* nothing (the error Close returns is dropped)
CloseConn(cc, c) == [cc EXCEPT ![c] = TRUE]

\* faulty write: the newest chunk goes out ahead of the earlier ones
WriteChunksFirst(w, msg, n) == <<msg>> \o [i \in 1..n |-> msg] \o w

\* the bytes of one websocket message: w.Write(msg), then w.Write(msg) again
\* for each of the n = len(c.send) values queued at that moment
WriteChunks(w, msg, n) == w \o <<msg>> \o [i \in 1..n |-> msg]

(* ------------------------------ Hub.Run -------------------------------- *)

\* case client := <-h.register, the rendezvous with serveWs's
\* client.hub.register <- client.  serveWs goes on to its two go statements,
\* which touch nothing shared: a goroutine that was created and has not run
\* yet ("start") cannot be told from one that is about to be created, so both
\* are part of this step.
HubRegister(c) ==
    /\ ~crashed
    /\ hpc = "select"
    /\ spc[c] = "register"
    /\ clients' = InsertClient(clients, c)
    /\ spc' = [spc EXCEPT ![c] = "done"]
    /\ wpc' = [wpc EXCEPT ![c] = "start"]
    /\ rpc' = [rpc EXCEPT ![c] = "start"]
    /\ UNCHANGED << ka, messages, hpc, hmsg, todo, startReg, offered, rmsg,
                    rerr, wmsg, send, closed, connClosed, delivered,
                    written, nread, crashed >>

\* case client := <-h.unregister
HubUnregister(c) ==
    /\ ~crashed
    /\ hpc = "select"
    /\ rpc[c] = "unregister"
    /\ rpc' = [rpc EXCEPT ![c] = "done"]
    /\ IF IsRegistered(clients, c)
       THEN IF closed[c]
            THEN \* close of a closed channel panics
                 /\ crashed' = TRUE
                 /\ UNCHANGED << clients, closed >>
            ELSE /\ closed' = CloseSend(closed, c)
                 /\ clients' = DeleteClient(clients, c)
                 /\ UNCHANGED crashed
       ELSE UNCHANGED << clients, closed, crashed >>
    /\ UNCHANGED << ka, messages, hpc, hmsg, todo, startReg, offered, spc, rmsg,
                    rerr, wpc, wmsg, send, connClosed, delivered, written,
                    nread >>

\* case msg := <-h.broadcast, up to the head of the range loop
HubBroadcast(c) ==
    /\ ~crashed
    /\ hpc = "select"
    /\ rpc[c] = "broadcast"
    /\ rpc' = [rpc EXCEPT ![c] = "read"]
    /\ messages' = AppendHistory(messages, rmsg[c])
    /\ hmsg' = IF RangeOver(clients, rmsg[c]) = {} THEN NoMessage ELSE rmsg[c]
    /\ rmsg' = [rmsg EXCEPT ![c] = NoMessage]
    /\ rerr' = [rerr EXCEPT ![c] = FALSE]
    /\ todo' = RangeOver(clients, rmsg[c])
    /\ startReg' = clients
    /\ offered' = {}
    /\ hpc' = IF RangeOver(clients, rmsg[c]) = {} THEN "select" ELSE "range"
    /\ UNCHANGED << ka, clients, spc, wpc, wmsg, send, closed, connClosed,
                    delivered, written, nread, crashed >>

\* one iteration of `for client := range h.clients`: the select with default
HubRange(c) ==
    /\ ~crashed
    /\ hpc = "range"
    /\ c \in todo
    /\ todo' = RangeRest(todo, c)
    /\ offered' = offered \cup {c}
    /\ hpc' = IF todo' = {} THEN "select" ELSE "range"
    /\ hmsg' = IF todo' = {} THEN NoMessage ELSE hmsg
    /\ IF closed[c]
       THEN \* a send on a closed channel panics, in a select too
            /\ crashed' = TRUE
            /\ UNCHANGED << clients, closed, send, wpc, wmsg, delivered >>
       ELSE IF CanSend(c)
       THEN /\ IF ReceiverWaiting(c)
               THEN /\ wpc' = [wpc EXCEPT ![c] = "write"]
                    /\ wmsg' = [wmsg EXCEPT ![c] = getMessageTemplate(hmsg)]
                    /\ UNCHANGED send
               ELSE /\ send' = [send EXCEPT ![c] = Append(@, getMessageTemplate(hmsg))]
                    /\ UNCHANGED << wpc, wmsg >>
            /\ delivered' = [delivered EXCEPT ![c] = Append(@, hmsg)]
            /\ UNCHANGED << clients, closed, crashed >>
       ELSE \* default: close(client.send); delete(h.clients, client)
            /\ closed' = CloseSend(closed, c)
            /\ clients' = DeleteClient(clients, c)
            /\ UNCHANGED << send, wpc, wmsg, delivered, crashed >>
    /\ UNCHANGED << ka, messages, startReg, spc, rpc, rmsg, rerr, connClosed,
                    written, nread >>

(* ----------------------------- readPump -------------------------------- *)

\* the goroutine starts: defer, SetReadLimit, SetReadDeadline, SetPingHandler
ReadPumpStart(c) ==
    /\ ~crashed
    /\ rpc[c] = "start"
    /\ rpc' = [rpc EXCEPT ![c] = "read"]
    /\ UNCHANGED << ka, hubVars, spc, rmsg, rerr, wpc, wmsg, send, closed,
                    connClosed, delivered, written, nread, crashed >>

\* c.conn.ReadMessage() returns a frame; it is decoded and the Message built.
\* msg.Text dereferences msg: a nil msg is a panic no one recovers.
\* Otherwise the pump blocks in c.hub.broadcast <- &Message{...}
ReadMessage(c, frame) ==
    /\ ~crashed
    /\ rpc[c] = "read"
    /\ ~connClosed[c]
    /\ nread < MaxFrames
    /\ nread' = nread + 1
    /\ LET d == Decode(frame) IN
       IF d.isNil
       THEN /\ crashed' = TRUE
            /\ UNCHANGED << rpc, rmsg, rerr >>
       ELSE /\ rpc' = [rpc EXCEPT ![c] = "broadcast"]
            /\ rmsg' = [rmsg EXCEPT ![c] = Message(c, d.Text, nread + 1)]
            /\ rerr' = [rerr EXCEPT ![c] = d.err]
            /\ UNCHANGED crashed
    /\ UNCHANGED << ka, hubVars, spc, wpc, wmsg, send, closed, connClosed,
                    delivered, written >>

\* c.conn.ReadMessage() returns an error (peer closed, read deadline passed,
\* frame over maxMessageSize, connection closed by writePump): break, and the
\* deferred function closes the connection and blocks in c.hub.unregister <- c
ReadError(c) ==
    /\ ~crashed
    /\ rpc[c] = "read"
    /\ rpc' = [rpc EXCEPT ![c] = "unregister"]
    /\ connClosed' = CloseConn(connClosed, c)
    /\ UNCHANGED << ka, hubVars, spc, rmsg, rerr, wpc, wmsg, send, closed,
                    delivered, written, nread, crashed >>

(* ----------------------------- writePump ------------------------------- *)

\* the goroutine starts: NewTicker, defer, and waits in its select
WritePumpStart(c) ==
    /\ ~crashed
    /\ wpc[c] = "start"
    /\ wpc' = [wpc EXCEPT ![c] = "select"]
    /\ UNCHANGED << ka, hubVars, spc, rpc, rmsg, rerr, wmsg, send, closed,
                    connClosed, delivered, written, nread, crashed >>

\* case msg, ok := <-c.send, without a sender: a buffered value, or !ok once
\* the channel is closed and drained
WritePumpRecv(c) ==
    /\ ~crashed
    /\ wpc[c] = "select"
    /\ send[c] # <<>> \/ closed[c]
    /\ IF send[c] # <<>>
       THEN /\ wpc' = [wpc EXCEPT ![c] = "write"]
            /\ wmsg' = [wmsg EXCEPT ![c] = Head(send[c])]
            /\ send' = [send EXCEPT ![c] = Tail(@)]
       ELSE /\ wpc' = [wpc EXCEPT ![c] = "closeMessage"]
            /\ UNCHANGED << wmsg, send >>
    /\ UNCHANGED << ka, hubVars, spc, rpc, rmsg, rerr, closed, connClosed,
                    delivered, written, nread, crashed >>

\* NextWriter, w.Write(msg), the coalescing loop and w.Close() all succeed
WriteMessage(c) ==
    /\ ~crashed
    /\ wpc[c] = "write"
    /\ ~connClosed[c]
    /\ written' = [written EXCEPT ![c] = WriteChunks(@, wmsg[c], Len(send[c]))]
    /\ wpc' = [wpc EXCEPT ![c] = "select"]
    /\ wmsg' = [wmsg EXCEPT ![c] = NoBytes]
    /\ UNCHANGED << ka, hubVars, spc, rpc, rmsg, rerr, send, closed,
                    connClosed, delivered, nread, crashed >>

\* !ok: c.conn.WriteMessage(websocket.CloseMessage, ...), return; the
\* deferred function closes the connection
WriteCloseMessage(c) ==
    /\ ~crashed
    /\ wpc[c] = "closeMessage"
    /\ wpc' = [wpc EXCEPT ![c] = "done"]
    /\ connClosed' = CloseConn(connClosed, c)
    /\ UNCHANGED << ka, hubVars, spc, rpc, rmsg, rerr, wmsg, send, closed,
                    delivered, written, nread, crashed >>

\* case <-ticker.C
Tick(c) ==
    /\ ~crashed
    /\ wpc[c] = "select"
    /\ wpc' = [wpc EXCEPT ![c] = "ping"]
    /\ UNCHANGED << ka, hubVars, spc, rpc, rmsg, rerr, wmsg, send, closed,
                    connClosed, delivered, written, nread, crashed >>

\* c.conn.WriteMessage(websocket.PingMessage, nil) succeeds
WritePing(c) ==
    /\ ~crashed
    /\ wpc[c] = "ping"
    /\ ~connClosed[c]
    /\ wpc' = [wpc EXCEPT ![c] = "select"]
    /\ UNCHANGED << ka, hubVars, spc, rpc, rmsg, rerr, wmsg, send, closed,
                    connClosed, delivered, written, nread, crashed >>

\* NextWriter, w.Close() or the ping's WriteMessage returns an error (write
\* deadline passed, peer gone, connection closed by readPump): return; the
\* deferred function closes the connection
WriteError(c) ==
    /\ ~crashed
    /\ wpc[c] \in {"write", "ping"}
    /\ wpc' = [wpc EXCEPT ![c] = "done"]
    /\ wmsg' = [wmsg EXCEPT ![c] = NoBytes]
    /\ connClosed' = CloseConn(connClosed, c)
    /\ UNCHANGED << ka, hubVars, spc, rpc, rmsg, rerr, send, closed,
                    delivered, written, nread, crashed >>

(* --------------------------- specification ----------------------------- *)

Next ==
    \E c \in Clients :
        \/ HubRegister(c)
        \/ HubUnregister(c)
        \/ HubBroadcast(c)
        \/ HubRange(c)
        \/ ReadPumpStart(c)
        \/ \E frame \in Frames : ReadMessage(c, frame)
        \/ ReadError(c)
        \/ WritePumpStart(c)
        \/ WritePumpRecv(c)
        \/ WriteMessage(c)
        \/ WriteCloseMessage(c)
        \/ Tick(c)
        \/ WritePing(c)
        \/ WriteError(c)

Spec == Init /\ [][Next]_vars

\* What the Go scheduler and the runtime guarantee: a goroutine that can run
\* does run, a receive the Hub's select can take is taken, and an operation
\* on the connection returns (with an error once the connection is closed).
\* Nothing obliges a peer to send a frame, so ReadMessage is not fair.
Fairness ==
    \A c \in Clients :
        /\ WF_vars(HubRegister(c))
        /\ WF_vars(HubUnregister(c))
        /\ WF_vars(HubBroadcast(c))
        /\ WF_vars(HubRange(c))
        /\ WF_vars(ReadPumpStart(c))
        /\ WF_vars(connClosed[c] /\ ReadError(c))
        /\ WF_vars(WritePumpStart(c))
        /\ WF_vars(WritePumpRecv(c))
        /\ WF_vars(WriteMessage(c) \/ WritePing(c) \/ WriteError(c))
        /\ WF_vars(WriteCloseMessage(c))

FairSpec == Spec /\ Fairness

(* ------------------------ keepalive, in seconds ------------------------ *)
(* One connection from the start of its pumps, with time: what moves the    *)
(* read deadline of c.conn, when writePump pings, and when ReadMessage      *)
(* returns the timeout error. The control frames of the peer are handled    *)
(* inside c.conn.ReadMessage, which does not return for them.               *)

\* serveWs has registered client c and started its two goroutines
KeepaliveInit ==
    \E c \in Clients :
        /\ clients = {c}
        /\ messages = <<>>
        /\ hpc = "select"
        /\ hmsg = NoMessage
        /\ todo = {}
        /\ startReg = {}
        /\ offered = {}
        /\ spc = [d \in Clients |-> IF d = c THEN "done" ELSE "register"]
        /\ rpc = [d \in Clients |-> IF d = c THEN "start" ELSE "none"]
        /\ rmsg = [d \in Clients |-> NoMessage]
        /\ rerr = [d \in Clients |-> FALSE]
        /\ wpc = [d \in Clients |-> IF d = c THEN "start" ELSE "none"]
        /\ wmsg = [d \in Clients |-> NoBytes]
        /\ send = [d \in Clients |-> <<>>]
        /\ closed = [d \in Clients |-> FALSE]
        /\ connClosed = [d \in Clients |-> FALSE]
        /\ delivered = [d \in Clients |-> <<>>]
        /\ written = [d \in Clients |-> <<>>]
        /\ nread = 0
        /\ crashed = FALSE
        /\ ka = KaIdle

\* readPump: c.conn.SetReadDeadline(time.Now().Add(pongWait)) and
\* SetPingHandler; writePump: time.NewTicker(pingPeriod)
KeepalivePumpsStart(c) ==
    /\ rpc[c] = "start"
    /\ wpc[c] = "start"
    /\ rpc' = [rpc EXCEPT ![c] = "read"]
    /\ wpc' = [wpc EXCEPT ![c] = "select"]
    /\ ka' = [ka EXCEPT !.deadline = ka.now + pongWait,
                        !.nextTick = ka.now + pingPeriod]
    /\ UNCHANGED << hubVars, spc, rmsg, rerr, wmsg, send, closed, connClosed,
                    delivered, written, nread, crashed >>

\* a second passes: nothing is due at this instant
TimePasses(c) ==
    /\ rpc[c] = "read"
    /\ wpc[c] = "select"
    /\ ka.now < MaxTime
    /\ ka.now < ka.deadline
    /\ ka.now < ka.nextTick
    /\ ~ka.pongDue
    /\ ka' = [ka EXCEPT !.now = @ + 1]
    /\ UNCHANGED progVars

\* case <-ticker.C: c.conn.WriteMessage(websocket.PingMessage, nil)
\* succeeds; the ticker fires again a pingPeriod later
PingSent(c) ==
    /\ rpc[c] = "read"
    /\ wpc[c] = "select"
    /\ ka.now = ka.nextTick
    /\ ka' = [ka EXCEPT !.nextTick = ka.now + pingPeriod, !.pongDue = TRUE]
    /\ UNCHANGED progVars

\* the peer answers the ping at once with a pong: readPump sets no pong
\* handler, and the connection's default one does nothing
PeerPong(c) ==
    /\ rpc[c] = "read"
    /\ ka.pongDue
    /\ ka' = [ka EXCEPT !.pongDue = FALSE]
    /\ UNCHANGED progVars

\* the peer sends a ping of its own: the handler readPump set runs,
\* c.conn.SetReadDeadline(time.Now().Add(pongWait))
PeerPing(c) ==
    /\ rpc[c] = "read"
    /\ ka.now < ka.deadline
    /\ ka' = [ka EXCEPT !.deadline = ka.now + pongWait]
    /\ UNCHANGED progVars

\* the read deadline is reached: c.conn.ReadMessage returns the timeout
\* error and readPump leaves its loop
ReadTimeout(c) ==
    /\ ka.now >= ka.deadline
    /\ ~ka.pongDue
    /\ ReadError(c)

KeepaliveNext ==
    \E c \in Clients :
        \/ KeepalivePumpsStart(c)
        \/ TimePasses(c)
        \/ PingSent(c)
        \/ PeerPong(c)
        \/ PeerPing(c)
        \/ ReadTimeout(c)

KeepaliveSpec == KeepaliveInit /\ [][KeepaliveNext]_vars

(* ------------------- writePump's write, on its inputs ------------------ *)
(* The statements of writePump from NextWriter to w.Close as a function of  *)
(* the value received and of what c.send holds at that instant, for a       *)
(* mailbox that has a buffer, as the comment on Client.send has it.         *)

QueuedMessages == { Message(c, text, 1) : c \in Clients, text \in {"", "hi"} }

\* client c's mailbox was given the messages of log, writePump has
\* received the first and the others are queued
WriteSectionInit ==
    \E c \in Clients, log \in SeqsUpTo(QueuedMessages, MaxQueued + 1) \ {<<>>} :
        /\ clients = {c}
        /\ messages = log
        /\ hpc = "select"
        /\ hmsg = NoMessage
        /\ todo = {}
        /\ startReg = {c}
        /\ offered = {c}
        /\ spc = [d \in Clients |-> IF d = c THEN "done" ELSE "register"]
        /\ rpc = [d \in Clients |-> IF d = c THEN "read" ELSE "none"]
        /\ rmsg = [d \in Clients |-> NoMessage]
        /\ rerr = [d \in Clients |-> FALSE]
        /\ wpc = [d \in Clients |-> IF d = c THEN "write" ELSE "none"]
        /\ wmsg = [d \in Clients |->
                     IF d = c THEN getMessageTemplate(log[1]) ELSE NoBytes]
        /\ send = [d \in Clients |->
                     IF d = c
                     THEN [i \in 1..(Len(log) - 1) |-> getMessageTemplate(log[i + 1])]
                     ELSE <<>>]
        /\ closed = [d \in Clients |-> FALSE]
        /\ connClosed = [d \in Clients |-> FALSE]
        /\ delivered = [d \in Clients |-> IF d = c THEN log ELSE <<>>]
        /\ written = [d \in Clients |-> <<>>]
        /\ nread = 0
        /\ crashed = FALSE
        /\ ka = KaIdle

WriteSectionNext == \E c \in Clients : WriteMessage(c)

WriteSectionSpec == WriteSectionInit /\ [][WriteSectionNext]_vars

(* ======================= properties of the model ======================= *)

\* the Message a chunk of written bytes renders
Rendered(bytes) == bytes.data

Payloads(chunks) == [i \in 1..Len(chunks) |-> Rendered(chunks[i])]

HistPos(msg) == CHOOSE i \in 1..Len(messages) : messages[i] = msg

\* log lists Messages in the order the Hub accepted them
InHistoryOrder(log) ==
    /\ \A i \in 1..Len(log) : \E k \in 1..Len(messages) : messages[k] = log[i]
    /\ \A i, j \in 1..Len(log) : i < j => HistPos(log[i]) < HistPos(log[j])

\* of two Messages of one sender other than r in log, the one its readPump
\* built first comes first
InSenderOrder(log, r) ==
    \A i, j \in 1..Len(log) :
        ( /\ log[i].ClientId = log[j].ClientId
          /\ log[i].ClientId # r
          /\ log[i].n < log[j].n ) => i < j

(* C1: a client R that receives the renderings of two messages M1, M2 that  *)
(* one other client S submitted in that order gets M1's before M2's, in its *)
(* mailbox and in the frames its writePump writes; and each mailbox and     *)
(* each connection sees messages in the order the Hub accepted them.        *)
C1_DeliveryOrder ==
    \A r \in Clients :
        /\ InSenderOrder(delivered[r], r)
        /\ InSenderOrder(Payloads(written[r]), r)
        /\ InHistoryOrder(delivered[r])
        /\ InHistoryOrder(Payloads(written[r]))

\* client r has been written two messages of one other sender
C1_Witness ==
    \E r \in Clients :
        /\ Len(written[r]) = 2
        /\ Rendered(written[r][1]).ClientId = Rendered(written[r][2]).ClientId
        /\ Rendered(written[r][1]).ClientId # r
        /\ Rendered(written[r][1]) # Rendered(written[r][2])

\* the step is the range loop's iteration for client c
RangeVisits(c) == hpc = "range" /\ c \in todo /\ c \notin todo'

(* C2: when the range loop reaches a registered client whose mailbox cannot *)
(* take the rendered message, that same step closes the mailbox and deletes *)
(* the client from the registry; no readPump's unregister submission is     *)
(* consumed by the step and the Hub does not die.                           *)
C2_BackpressureEviction ==
    [][ \A c \in Clients :
          (RangeVisits(c) /\ c \in clients /\ ~CanSend(c))
            => /\ closed'[c]
               /\ c \notin clients'
               /\ rpc' = rpc
               /\ ~crashed' ]_vars

\* a client was evicted by the fan-out while its readPump had not asked to
\* be unregistered
C2_Witness ==
    \E c \in Clients :
        /\ c \in offered
        /\ c \in startReg
        /\ c \notin clients
        /\ closed[c]
        /\ rpc[c] \in {"start", "read", "broadcast"}

\* registry membership and mailbox status of client c
Status(c) == << c \in clients, closed[c] >>

HubEvicts(c) == RangeVisits(c) /\ ~CanSend(c)

HubUnregisters(c) == rpc[c] = "unregister" /\ rpc'[c] = "done"

HubRegisters(c) == spc[c] = "register" /\ spc'[c] = "done"

ConnectionLost(c) == ~connClosed[c] /\ connClosed'[c]

(* C3: evicting, unregistering or losing the connection of client c leaves  *)
(* the registry membership and the mailbox status of every other client as  *)
(* they were; an eviction does not cut the fan-out short (the clients still *)
(* to be visited stay so), and every visited client whose mailbox can take  *)
(* the message gets it and stays registered with its mailbox open.          *)
C3_Isolation ==
    [][ \A c \in Clients :
          /\ (HubEvicts(c) \/ HubUnregisters(c) \/ ConnectionLost(c))
               => \A d \in Clients \ {c} : Status(d)' = Status(d)
          /\ HubEvicts(c)
               => /\ \A d \in todo \ {c} : d \in todo'
                  /\ \A d \in Clients \ {c} : delivered'[d] = delivered[d]
          /\ (RangeVisits(c) /\ c \in clients /\ ~closed[c] /\ CanSend(c))
               => /\ delivered'[c] = Append(delivered[c], hmsg)
                  /\ Status(c)' = Status(c)
          /\ (hpc = "range" /\ hpc' = "select") => todo' = {} ]_vars

\* one fan-out evicted one client and delivered the message to another
C3_Witness ==
    \E c, d \in Clients :
        /\ c # d
        /\ hpc = "select"
        /\ {c, d} \subseteq offered
        /\ closed[c] /\ c \notin clients
        /\ d \in clients /\ ~closed[d]
        /\ delivered[d] # <<>>
        /\ delivered[d][Len(delivered[d])] = messages[Len(messages)]

\* a caller is blocked submitting to one of the Hub's three channels
BlockedOnRegister(c) == spc[c] = "register"

BlockedOnBroadcast(c) == rpc[c] = "broadcast"

BlockedOnUnregister(c) == rpc[c] = "unregister"

(* C4: the Hub loop never stalls, so every caller blocked submitting to     *)
(* register, unregister or broadcast is eventually accepted.                *)
C4_BlockedCallersAccepted ==
    \A c \in Clients :
        /\ BlockedOnRegister(c) ~> ~BlockedOnRegister(c)
        /\ BlockedOnBroadcast(c) ~> ~BlockedOnBroadcast(c)
        /\ BlockedOnUnregister(c) ~> ~BlockedOnUnregister(c)

\* client r is registered with a healthy connection and live pumps
Healthy(r) ==
    /\ r \in clients
    /\ ~connClosed[r]
    /\ rpc[r] \in {"start", "read", "broadcast"}
    /\ wpc[r] \in {"start", "select", "write", "ping"}

(* C5: when the Hub fans out a message of client A, every other registered  *)
(* client with a healthy connection gets the rendering on its mailbox and   *)
(* remains registered, whatever the interleaving.                           *)
C5_FanOutReachesRegistered ==
    [][ \A r \in Clients :
          (RangeVisits(r) /\ Healthy(r) /\ hmsg.ClientId # r)
            => /\ delivered'[r] = Append(delivered[r], hmsg)
               /\ r \in clients' ]_vars

TeardownStarted(c) == rpc[c] \in {"unregister", "done"} \/ wpc[c] = "done"

TornDown(c) ==
    /\ connClosed[c]
    /\ c \notin clients
    /\ closed[c]
    /\ rpc[c] = "done"
    /\ wpc[c] = "done"

(* C6: once a client's readPump has left its loop or its writePump has      *)
(* returned, the connection is eventually closed, the unregister accepted,  *)
(* the client out of the registry for good, its mailbox closed and both     *)
(* pumps terminated.                                                        *)
C6_TeardownCompletes ==
    \A c \in Clients : TeardownStarted(c) ~> []TornDown(c)

(* C7: a frame that fails to decode makes the readPump submit one Message   *)
(* with the client's id and the empty text.                                 *)
C7_DecodeFailureGivesEmptyText ==
    \A c \in Clients :
        (rpc[c] = "broadcast" /\ rerr[c])
          => (rmsg[c].ClientId = c /\ rmsg[c].Text = "")

(* C8: whatever one connection does or sends, the server process does not   *)
(* terminate.                                                               *)
C8_ProcessNeverDies == ~crashed

ReadPumpActive(c) == rpc[c] \in {"start", "read", "broadcast", "unregister"}

WritePumpActive(c) == wpc[c] \in {"start", "select", "write", "ping", "closeMessage"}

(* C9 as stated: a client is in the registry iff its mailbox is open and    *)
(* both of its pumps are active.                                            *)
C9_RegisteredIffOpenAndPumping ==
    \A c \in Clients :
        c \in clients <=> (~closed[c] /\ ReadPumpActive(c) /\ WritePumpActive(c))

(* C9 amended: a client is in the registry iff the Hub has accepted its     *)
(* registration and its mailbox is open; a client with an open mailbox and  *)
(* both pumps active is in the registry (the converse does not hold).       *)
C9_RegisteredIffAcceptedAndOpen ==
    \A c \in Clients :
        /\ c \in clients <=> (spc[c] = "done" /\ ~closed[c])
        /\ (~closed[c] /\ ReadPumpActive(c) /\ WritePumpActive(c)) => c \in clients

\* a registered client with an open mailbox whose writePump has returned
C9_Witness ==
    \E c \in Clients : c \in clients /\ ~closed[c] /\ wpc[c] = "done"

(* C10: the step that appends a message to the history tries the            *)
(* non-blocking send on every client that was registered when it began:     *)
(* while the loop runs, the clients tried and those still to come make up   *)
(* that registry, and when the Hub is back at its select all were tried.    *)
C10_OfferedToAll ==
    /\ hpc = "range"
         => /\ offered \cup todo = startReg
            /\ offered \cap todo = {}
            /\ todo # {}
            /\ hmsg = messages[Len(messages)]
    /\ hpc = "select" => offered = startReg
    /\ messages = <<>> => startReg = {}

\* a fan-out over two clients is complete and evicted one of them
C10_Witness ==
    /\ hpc = "select"
    /\ Cardinality(startReg) >= 2
    /\ offered = startReg
    /\ \E c \in offered : closed[c] /\ c \notin clients

(* C11: the history is append-only: a step leaves it as it is or appends    *)
(* one message at its end; each broadcast the Hub takes appends exactly the *)
(* submitted message, and register and unregister events leave it alone.    *)
C11_HistoryAppendOnly ==
    [][ /\ \/ messages' = messages
           \/ \E c \in Clients :
                 rpc[c] = "broadcast" /\ messages' = Append(messages, rmsg[c])
        /\ \A c \in Clients :
             /\ (rpc[c] = "broadcast" /\ rpc'[c] # "broadcast")
                  => messages' = Append(messages, rmsg[c])
             /\ (HubRegisters(c) \/ HubUnregisters(c))
                  => messages' = messages ]_vars

\* two messages are in the history and an unregister was handled
C11_Witness ==
    /\ Len(messages) = 2
    /\ \E c \in Clients : rpc[c] = "done"

(* C12: keepalive protects a healthy peer: the read deadline is now+60s at *)
(* the start of readPump and again at every pong that answers a ping of     *)
(* writePump, and pings go out every 54s, so a peer that answers every      *)
(* ping at once is never cut off by the read timeout.                       *)
C12_HealthyPeerStaysConnected ==
    \A c \in Clients : ~connClosed[c]

(* C13: an unregister event for a client that is not in the registry leaves *)
(* the registry, the history and every mailbox as they were; for a client   *)
(* that is in the registry it closes the mailbox and removes the client.    *)
(* Neither makes the Hub panic.                                             *)
C13_UnregisterRepeatable ==
    [][ \A c \in Clients :
          HubUnregisters(c)
            => IF c \in clients
               THEN closed'[c] /\ c \notin clients' /\ ~crashed'
               ELSE /\ clients' = clients
                    /\ messages' = messages
                    /\ closed' = closed
                    /\ send' = send
                    /\ delivered' = delivered
                    /\ ~crashed' ]_vars

\* the only fan-out so far evicted client c (it visited c and delivered
\* nothing), and c's unregister was handled afterwards
C13_Witness ==
    \E c \in Clients :
        /\ Len(messages) = 1
        /\ c \in offered
        /\ delivered[c] = <<>>
        /\ closed[c]
        /\ rpc[c] = "done"
        /\ ~crashed

\* writePump of c is not waiting to take a value from c.send
NotConsuming(c) == wpc[c] # "select"

(* C14: a mailbox never holds more than its capacity k; a fan-out that      *)
(* reaches a registered client whose writePump takes nothing enqueues while *)
(* fewer than k values are queued and otherwise closes the mailbox and      *)
(* removes the client: after k+1 broadcasts it is out, with at most k       *)
(* messages received.                                                       *)
C14_SlowConsumerBound ==
    [][ \A c \in Clients :
          /\ Len(send'[c]) <= MailboxCap
          /\ (RangeVisits(c) /\ c \in clients /\ NotConsuming(c))
               => IF Len(send[c]) < MailboxCap
                  THEN /\ send'[c] = Append(send[c], getMessageTemplate(hmsg))
                       /\ c \in clients'
                       /\ ~closed'[c]
                  ELSE /\ closed'[c]
                       /\ c \notin clients'
                       /\ send'[c] = send[c]
                       /\ delivered'[c] = delivered[c] ]_vars

\* a client whose writePump never took anything is out after k+1 broadcasts
C14_Witness ==
    \E c \in Clients :
        /\ wpc[c] = "start"
        /\ Len(messages) = MailboxCap + 1
        /\ c \in offered
        /\ closed[c]
        /\ c \notin clients
        /\ Len(delivered[c]) <= MailboxCap

(* C15: the fan-out of a message includes its sender: when the Hub takes a  *)
(* message of a registered client A, A is among the clients the range loop  *)
(* will visit, and the visit treats A's mailbox like any other (the send    *)
(* succeeds if the mailbox can take it, A is evicted if not).               *)
C15_SenderInclusive ==
    [][ \A c \in Clients :
          /\ (rpc[c] = "broadcast" /\ rpc'[c] = "read" /\ c \in clients)
               => (c \in todo' /\ hmsg' = rmsg[c])
          /\ (RangeVisits(c) /\ hmsg.ClientId = c /\ c \in clients /\ ~closed[c])
               => IF CanSend(c)
                  THEN delivered'[c] = Append(delivered[c], hmsg) /\ c \in clients'
                  ELSE closed'[c] /\ c \notin clients' ]_vars

\* a client got its own message on its mailbox
C15_Witness ==
    \E c \in Clients :
        /\ delivered[c] # <<>>
        /\ delivered[c][1].ClientId = c

\* the Hub's send to c succeeds in this step
HubEnqueues(c) == RangeVisits(c) /\ c \in clients /\ ~closed[c] /\ CanSend(c)

\* the connection of c has not been closed and nothing has panicked
ConnHealthy(c) == ~connClosed[c]

(* C16: a broadcast evicts only clients that cannot accept: when the Hub's  *)
(* non-blocking send finds that c's mailbox can take the rendering, the     *)
(* send succeeds and c stays registered with its mailbox open; and every    *)
(* rendering a mailbox has taken is eventually written to the connection,   *)
(* unless the connection is closed.                                         *)
C16_AcceptedStaysAndIsWritten ==
    /\ [][ \A c \in Clients :
             HubEnqueues(c)
               => /\ delivered'[c] = Append(delivered[c], hmsg)
                  /\ c \in clients'
                  /\ ~closed'[c] ]_vars
    /\ \A c \in Clients :
         (Len(written[c]) < Len(delivered[c]))
           ~> (Len(written[c]) = Len(delivered[c]) \/ ~ConnHealthy(c))

\* whether the statement of Hub.Run that changes h.clients at this place
\* runs between h.Lock() and h.Unlock()
LockHeldAt(place) ==
    CASE place = "register" -> TRUE
      [] place = "unregister" -> TRUE
      [] place = "evict" -> FALSE

\* the place of Hub.Run at which the step changes c's registry entry
MutationPlace(c) ==
    IF HubRegisters(c) THEN "register"
    ELSE IF HubUnregisters(c) THEN "unregister"
    ELSE "evict"

(* C17: every change of the registry by the Hub loop (insert on register,   *)
(* delete on unregister, delete on eviction) is made with the Hub's write   *)
(* lock held.                                                               *)
C17_RegistryMutatedUnderLock ==
    [][ \A c \in Clients :
          ((c \in clients) # (c \in clients')) => LockHeldAt(MutationPlace(c)) ]_vars

(* C18: once writePump has seen its mailbox closed it writes the close      *)
(* frame, no data after it, and returns; once returned it stays so; on      *)
(* every path on which it returns the connection is closed, also when       *)
(* readPump closed it before, and nothing panics.                           *)
C18_WritePumpTermination ==
    [][ \A c \in Clients :
          /\ wpc[c] = "closeMessage"
               => (wpc'[c] \in {"closeMessage", "done"} /\ written'[c] = written[c])
          /\ wpc[c] = "done"
               => (wpc'[c] = "done" /\ written'[c] = written[c])
          /\ (wpc[c] # "done" /\ wpc'[c] = "done")
               => (wpc[c] \in {"closeMessage", "write", "ping"}
                   /\ connClosed'[c] /\ ~crashed') ]_vars

\* writePump has seen its mailbox closed and is about to write the close
\* frame on a connection readPump has closed already
C18_Witness ==
    \E c \in Clients :
        /\ wpc[c] = "closeMessage"
        /\ connClosed[c]
        /\ rpc[c] \in {"unregister", "done"}

Renderings(log) == [i \in 1..Len(log) |-> getMessageTemplate(log[i])]

IsPrefix(a, b) == Len(a) <= Len(b) /\ \A i \in 1..Len(a) : a[i] = b[i]

C20_MailboxCloseSafety ==
    [][ /\ \A c \in clients' : ~closed'[c]
        /\ \A c \in Clients :
             /\ (~closed[c] /\ closed'[c])
                  => (HubEvicts(c) \/ (HubUnregisters(c) /\ c \in clients))
             /\ closed[c] => closed'[c]
             /\ (spc[c] = "done" /\ c \notin clients) => c \notin clients'
        /\ (~crashed /\ crashed') => (nread' = nread + 1 /\ hubVars' = hubVars) ]_vars

\* a client was removed with its mailbox closed, and the Hub went on to
\* fan out a second message
C20_Witness ==
    \E c \in Clients :
        /\ closed[c]
        /\ c \notin clients
        /\ Len(messages) = 2
        /\ Len(delivered[c]) <= 1
        /\ startReg # {}
        /\ ~crashed

====
